---------------------------- MODULE Spec2Model ----------------------------
(***************************************************************************)
(* Model of x-pack/plugins/infra/public/utils/filters/build.ts:            *)
(*   - the hosts filter builders (buildExistsHostsFilter,                  *)
(*     buildCombinedHostsFilter),                                          *)
(*   - calculateMultiFields, the grouping of multi-fields by parent,       *)
(*   - UnifiedFieldListSidebarComponent: its two pieces of state           *)
(*     (selectedFieldsState, multiFieldsMap) and the two effects that      *)
(*     recompute them after a render.                                      *)
(*                                                                         *)
(* JavaScript values are modelled as follows.  An optional value (T |      *)
(* undefined | null) is a record [defined, value].  A plain object used as *)
(* a dictionary is a function from its keys.  A Map is the sequence of its *)
(* entries in insertion order.  A call either returns or throws: a         *)
(* completion is a record [status, value].                                 *)
(***************************************************************************)
EXTENDS Naturals, Sequences, FiniteSets, TLC

VARIABLES
    op,                   \* pure calls: the function called last ("none" before any call)
    args,                 \* pure calls: its arguments
    ret,                  \* pure calls: its completion
    props,                \* sidebar: the props of the current render request
    selectedFieldsState,  \* sidebar: useState at line 579
    multiFieldsMap,       \* sidebar: useState at line 582
    pc,                   \* sidebar: position in the render / effects cycle
    snap,                 \* sidebar: props and state captured by the last render's closures
    changed,              \* sidebar: effect dependencies that changed since the last render
    runEffects,           \* sidebar: effects the last render scheduled
    queued,               \* sidebar: state updates queued by the effects, not yet committed
    heap,                 \* heap calls: the objects, by reference (the index in this sequence)
    hin,                  \* heap calls: the references of the input objects
    hcalls                \* heap calls: the calls made so far, each with the heap it started from

vars == <<op, args, ret, props, selectedFieldsState, multiFieldsMap, pc, snap,
          changed, runEffects, queued, heap, hin, hcalls>>

heapVars == <<heap, hin, hcalls>>
pureVars == <<op, args, ret, heap, hin, hcalls>>
sidebarVars == <<props, selectedFieldsState, multiFieldsMap, pc, snap, changed,
                 runEffects, queued>>

-----------------------------------------------------------------------------
(* Bounds of the model *)

MaxFields == 4          \* longest allFields list passed to a pure call
MaxValues == 2          \* longest values list passed to buildCombinedHostsFilter
MaxSelection == 3       \* longest workspaceSelectedFieldNames list
MaxSidebarFields == 2   \* longest allFields list passed to the sidebar
MaxHeapFields == 3      \* longest allFields list allocated on the heap
MaxCalls == 2           \* calls made in a row on one heap
MaxFilters == 3         \* filters in one filter list, nested ones included
MaxPrior == 1           \* elements already in the fields array passed in

FieldNames == {"a", "b", "c", "d"}
ParentNames == {"a", "b"}
SidebarFieldNames == {"a", "b"}
StaleName == "z"        \* a selected name that matches no field
HostValues == {"h1", "h2"}

-----------------------------------------------------------------------------
(* JavaScript values *)

Some(v) == [defined |-> TRUE, value |-> v]
Undefined == [defined |-> FALSE, value |-> <<>>]
Null == Undefined       \* null and undefined are both falsy and both "absent"

Return(v) == [status |-> "returned", value |-> v]
Throw(e) == [status |-> "threw", value |-> e]

NoParent == ""

\* Truthiness of a string or undefined (the empty string is falsy)
TruthyString(s) == s # NoParent

RECURSIVE SeqsUpTo(_, _)
SeqsUpTo(S, n) ==
    IF n = 0 THEN {<<>>}
    ELSE LET shorter == SeqsUpTo(S, n - 1)
         IN shorter \cup {Append(s, x) : s \in {t \in shorter : Len(t) = n - 1}, x \in S}

\* A field: its name and the parent its subType.multi declares (NoParent when
\* it has no multi subtype).  No field is its own parent.
FieldsOver(names, parents) ==
    {f \in [name : names, parent : parents \cup {NoParent}] : f.parent # f.name}

DistinctNames(fields) ==
    \A i, j \in 1..Len(fields) : fields[i].name = fields[j].name => i = j

FieldLists(names, parents, n) ==
    {l \in SeqsUpTo(FieldsOver(names, parents), n) : DistinctNames(l)}

\* Dictionaries name -> boolean over a set of names
BoolMaps(names) == UNION {[S -> BOOLEAN] : S \in SUBSET names}

-----------------------------------------------------------------------------
(* Map<string, Array<...>>: the sequence of its entries in insertion order *)

EmptyMap == <<>>

MapHas(map, key) == \E i \in 1..Len(map) : map[i].key = key

MapKeys(map) == {map[i].key : i \in 1..Len(map)}

\* map.get(key): the value, or undefined
MapGet(map, key) ==
    IF MapHas(map, key)
    THEN Some(map[CHOOSE i \in 1..Len(map) : map[i].key = key].value)
    ELSE Undefined

\* map.set(key, value): an existing key keeps its position, a new key is appended
MapSet(map, key, value) ==
    IF MapHas(map, key)
    THEN [i \in 1..Len(map) |->
            IF map[i].key = key THEN [key |-> key, value |-> value] ELSE map[i]]
    ELSE Append(map, [key |-> key, value |-> value])

-----------------------------------------------------------------------------
(* calculateMultiFields, lines 779-802 *)

\* getDataViewFieldSubtypeMulti(field)?.multi.parent (line 788-789): the parent
\* the field's multi subtype declares, undefined (NoParent) without one
getDataViewFieldSubtypeMulti(field) == field.parent

\* Boolean(selectedFieldsMap?.[field.name]) (line 795)
isSelectedIn(selectedFieldsMap, name) ==
    /\ selectedFieldsMap.defined
    /\ name \in DOMAIN selectedFieldsMap.value
    /\ selectedFieldsMap.value[name]

\* Mutant: the pair is put at the front of the bucket (unshift instead of push)
multiFieldsStepUnshift(map, field, selectedFieldsMap) ==
    LET parent == getDataViewFieldSubtypeMulti(field)
        multiField == [field |-> field,
                       isSelected |-> isSelectedIn(selectedFieldsMap, field.name)]
        found == MapGet(map, parent)
        value == IF found.defined THEN found.value ELSE <<>>
    IN IF ~TruthyString(parent) THEN map
       ELSE MapSet(map, parent, <<multiField>> \o value)

\* Mutant: the bucket is keyed by the field's own name instead of its parent's
multiFieldsStepKeyedByName(map, field, selectedFieldsMap) ==
    LET parent == getDataViewFieldSubtypeMulti(field)
        multiField == [field |-> field,
                       isSelected |-> isSelectedIn(selectedFieldsMap, field.name)]
        found == MapGet(map, field.name)
        value == IF found.defined THEN found.value ELSE <<>>
    IN IF ~TruthyString(parent) THEN map
       ELSE MapSet(map, field.name, Append(value, multiField))

\* One call of the forEach callback (lines 787-800) on the map built so far
multiFieldsStep(map, field, selectedFieldsMap) ==
    LET parent == getDataViewFieldSubtypeMulti(field)
        multiField == [field |-> field,
                       isSelected |-> isSelectedIn(selectedFieldsMap, field.name)]
        found == MapGet(map, parent)
        value == IF found.defined THEN found.value ELSE <<>>
    IN IF ~TruthyString(parent) THEN map
       ELSE MapSet(map, parent, Append(value, multiField))

RECURSIVE multiFieldsForEach(_, _, _, _)
multiFieldsForEach(allFields, i, selectedFieldsMap, map) ==
    IF i > Len(allFields) THEN map
    ELSE multiFieldsForEach(allFields, i + 1, selectedFieldsMap,
                            multiFieldsStep(map, allFields[i], selectedFieldsMap))

\* Mutant: without the guard of lines 783-785, an absent list is grouped as an
\* empty one
calculateMultiFieldsNoNullGuard(allFields, selectedFieldsMap) ==
    Some(multiFieldsForEach(IF allFields.defined THEN allFields.value ELSE <<>>, 1,
                            selectedFieldsMap, EmptyMap))

\* allFields: optional sequence of fields; selectedFieldsMap: optional dictionary.
\* The result is an optional Map.
calculateMultiFields(allFields, selectedFieldsMap) ==
    IF ~allFields.defined THEN Undefined
    ELSE Some(multiFieldsForEach(allFields.value, 1, selectedFieldsMap, EmptyMap))

-----------------------------------------------------------------------------
(* The data view and the @kbn/es-query builders the filter helpers call *)

\* A data view: an id and the set of its fields
DataViewOf(fields) == [id |-> "dv", fields |-> fields]

\* dataView.getFieldByName(name): the field, or undefined
getFieldByName(dataView, name) ==
    IF \E f \in dataView.fields : f.name = name
    THEN Some(CHOOSE f \in dataView.fields : f.name = name)
    ELSE Undefined

\* buildExistsFilter(field, indexPattern): reads field.name
buildExistsFilter(indexField, dataView) ==
    IF ~indexField.defined THEN Throw("TypeError")
    ELSE Return([meta |-> [index |-> dataView.id],
                 query |-> [exists |-> [field |-> indexField.value.name]]])

\* buildPhraseFilter(field, value, indexPattern): reads field.name
buildPhraseFilter(indexField, value, dataView) ==
    IF ~indexField.defined THEN Throw("TypeError")
    ELSE Return([meta |-> [index |-> dataView.id],
                 query |-> [match_phrase |-> (indexField.value.name :> value)]])

\* buildCombinedFilter(relation, filters, indexPattern): wraps the filters
buildCombinedFilter(relation, filters, dataView) ==
    Return([meta |-> [type |-> "combined", relation |-> relation,
                      params |-> filters, index |-> dataView.id],
            query |-> <<>>])

-----------------------------------------------------------------------------
(* The hosts filter builders, lines 18-62 *)

EmptyMeta == <<>>

\* Mutant: without the guard of lines 25-34, the schema is looked up even when
\* no data view is passed
buildExistsHostsFilterNoGuard(field, dataView) ==
    LET indexField == IF dataView.defined THEN getFieldByName(dataView.value, field)
                      ELSE Undefined
    IN buildExistsFilter(indexField, dataView.value)

buildExistsHostsFilter(field, dataView) ==
    IF ~dataView.defined
    THEN Return([meta |-> EmptyMeta, query |-> [exists |-> [field |-> field]]])
    ELSE LET indexField == getFieldByName(dataView.value, field)
         IN buildExistsFilter(indexField, dataView.value)

\* values.map((value) => buildPhraseFilter(indexField, value, dataView)), line 59:
\* the callback runs once per value, in order; the first throw ends the map
RECURSIVE mapPhraseFilters(_, _, _, _, _)
mapPhraseFilters(values, i, indexField, dataView, done) ==
    IF i > Len(values) THEN Return(done)
    ELSE LET one == buildPhraseFilter(indexField, values[i], dataView)
         IN IF one.status = "threw" THEN one
            ELSE mapPhraseFilters(values, i + 1, indexField, dataView,
                                  Append(done, one.value))

\* Mutant: a field missing from the data view is tolerated by falling back to
\* the raw query
buildCombinedHostsFilterTolerant(field, values, dataView) ==
    IF ~dataView.defined \/ ~getFieldByName(dataView.value, field).defined
    THEN Return([query |-> [terms |-> (field :> values)], meta |-> EmptyMeta])
    ELSE LET indexField == getFieldByName(dataView.value, field)
             filtersFromValues ==
                 mapPhraseFilters(values, 1, indexField, dataView.value, <<>>)
         IN IF filtersFromValues.status = "threw" THEN filtersFromValues
            ELSE buildCombinedFilter("OR", filtersFromValues.value, dataView.value)

buildCombinedHostsFilter(field, values, dataView) ==
    IF ~dataView.defined
    THEN Return([query |-> [terms |-> (field :> values)], meta |-> EmptyMeta])
    ELSE LET indexField == getFieldByName(dataView.value, field)
             filtersFromValues ==
                 mapPhraseFilters(values, 1, indexField, dataView.value, <<>>)
         IN IF filtersFromValues.status = "threw" THEN filtersFromValues
            ELSE buildCombinedFilter("OR", filtersFromValues.value, dataView.value)

-----------------------------------------------------------------------------
(* getSelectedFields and INITIAL_SELECTED_FIELDS_RESULT of ./group_fields,      *)
(* imported at lines 472-477.  A result carries ref, the identity of the object *)
(* (React compares state and effect dependencies with Object.is): "INITIAL" is  *)
(* the shared constant, "fresh" an object created by the call.                  *)

INITIAL_SELECTED_FIELDS_RESULT ==
    [selectedFields |-> <<>>, selectedFieldsMap |-> <<>>, ref |-> "INITIAL"]

\* allFields.find((field) => field.name === name): the first match, or undefined
findByName(fields, name) ==
    IF \E i \in 1..Len(fields) : fields[i].name = name
    THEN Some(fields[CHOOSE i \in 1..Len(fields) :
                        /\ fields[i].name = name
                        /\ \A j \in 1..(i - 1) : fields[j].name # name])
    ELSE Undefined

\* The field a selected name resolves to: looked up in allFields, or in the
\* data view's schema when allFields is absent
lookupSelectedField(dataView, allFields, name) ==
    IF allFields.defined THEN findByName(allFields.value, name)
    ELSE IF dataView.defined THEN getFieldByName(dataView.value, name)
    ELSE Undefined

\* One pass over the selected names: a name with a matching field is pushed to
\* the sequence and entered in the dictionary, any other name is dropped
RECURSIVE selectedFieldsLoop(_, _, _, _, _)
selectedFieldsLoop(dataView, allFields, names, i, result) ==
    IF i > Len(names) THEN result
    ELSE LET selectedField == lookupSelectedField(dataView, allFields, names[i])
             next ==
                 IF ~selectedField.defined THEN result
                 ELSE [result EXCEPT
                         !.selectedFields = Append(@, selectedField.value),
                         !.selectedFieldsMap =
                             (selectedField.value.name :> TRUE) @@ @]
         IN selectedFieldsLoop(dataView, allFields, names, i + 1, next)

\* Mutant: an empty selection runs the loop and yields a new empty result
\* instead of the shared initial one
getSelectedFieldsNoInitial(dataView, workspaceSelectedFieldNames, allFields, searchMode) ==
    selectedFieldsLoop(dataView, allFields,
                       IF workspaceSelectedFieldNames.defined
                       THEN workspaceSelectedFieldNames.value ELSE <<>>,
                       1,
                       [selectedFields |-> <<>>, selectedFieldsMap |-> <<>>,
                        ref |-> "fresh"])

getSelectedFields(dataView, workspaceSelectedFieldNames, allFields, searchMode) ==
    IF \/ ~workspaceSelectedFieldNames.defined
       \/ Len(workspaceSelectedFieldNames.value) = 0
    THEN INITIAL_SELECTED_FIELDS_RESULT
    ELSE selectedFieldsLoop(dataView, allFields, workspaceSelectedFieldNames.value, 1,
                            [selectedFields |-> <<>>, selectedFieldsMap |-> <<>>,
                             ref |-> "fresh"])

-----------------------------------------------------------------------------
(* Pure calls: each action calls one function, once, on inputs drawn from      *)
(* bounded sets                                                                *)

SearchModes == {"documents", "text-based"}

PureAllFields == {Null} \cup {Some(l) : l \in FieldLists(FieldNames, ParentNames, MaxFields)}
PureSelectedMaps == {Undefined} \cup {Some(m) : m \in BoolMaps(FieldNames)}

FilterFieldNames == {"a", "b", StaleName}
FilterDataViews ==
    {Undefined} \cup
    {Some(DataViewOf({[name |-> n, parent |-> NoParent] : n \in S})) :
        S \in SUBSET {"a", "b"}}
FilterValues == SeqsUpTo(HostValues, MaxValues)

ResolverAllFields ==
    {Null} \cup {Some(l) : l \in FieldLists(SidebarFieldNames, ParentNames, MaxSidebarFields)}
ResolverSelections ==
    {Undefined} \cup
    {Some(l) : l \in SeqsUpTo(SidebarFieldNames \cup {StaleName}, MaxSelection)}
ResolverDataViews ==
    {Undefined, Some(DataViewOf({[name |-> "a", parent |-> NoParent]}))}

NoArgs ==
    [allFields |-> Null, selectedFieldsMap |-> Undefined, field |-> "", values |-> <<>>,
     dataView |-> Undefined, workspaceSelectedFieldNames |-> Undefined,
     searchMode |-> "documents"]

CallCalculateMultiFields ==
    /\ op = "none"
    /\ \E allFields \in PureAllFields, selectedFieldsMap \in PureSelectedMaps :
           /\ op' = "calculateMultiFields"
           /\ args' = [NoArgs EXCEPT !.allFields = allFields,
                                     !.selectedFieldsMap = selectedFieldsMap]
           /\ ret' = Return(calculateMultiFields(allFields, selectedFieldsMap))
           /\ UNCHANGED sidebarVars
           /\ UNCHANGED heapVars

CallBuildExistsHostsFilter ==
    /\ op = "none"
    /\ \E field \in FilterFieldNames, dataView \in FilterDataViews :
           /\ op' = "buildExistsHostsFilter"
           /\ args' = [NoArgs EXCEPT !.field = field, !.dataView = dataView]
           /\ ret' = buildExistsHostsFilter(field, dataView)
           /\ UNCHANGED sidebarVars
           /\ UNCHANGED heapVars

CallBuildCombinedHostsFilter ==
    /\ op = "none"
    /\ \E field \in FilterFieldNames, values \in FilterValues, dataView \in FilterDataViews :
           /\ op' = "buildCombinedHostsFilter"
           /\ args' = [NoArgs EXCEPT !.field = field, !.values = values,
                                     !.dataView = dataView]
           /\ ret' = buildCombinedHostsFilter(field, values, dataView)
           /\ UNCHANGED sidebarVars
           /\ UNCHANGED heapVars

CallGetSelectedFields ==
    /\ op = "none"
    /\ \E dataView \in ResolverDataViews, names \in ResolverSelections,
          allFields \in ResolverAllFields, searchMode \in SearchModes :
           /\ op' = "getSelectedFields"
           /\ args' = [NoArgs EXCEPT !.dataView = dataView,
                                     !.workspaceSelectedFieldNames = names,
                                     !.allFields = allFields,
                                     !.searchMode = searchMode]
           /\ ret' = Return(getSelectedFields(dataView, names, allFields, searchMode))
           /\ UNCHANGED sidebarVars
           /\ UNCHANGED heapVars

-----------------------------------------------------------------------------
(* UnifiedFieldListSidebarComponent, lines 553-620 *)

SidebarAllFields == ResolverAllFields
SidebarSelections == ResolverSelections
SidebarDataViews == ResolverDataViews

SidebarProps ==
    [allFields : SidebarAllFields,
     workspaceSelectedFieldNames : SidebarSelections,
     searchMode : SearchModes,
     dataView : SidebarDataViews,
     onSelectedFieldFilter : BOOLEAN,                \* whether the callback is supplied
     disableMultiFieldsGroupingByParent : BOOLEAN,   \* stateService.creationOptions
     searchFieldsFromSource : BOOLEAN]               \* the uiSettings value

\* Mutant: the setting is not consulted
useNewFieldsApiAlways(p) == TRUE

\* useMemo(() => !core.uiSettings.get(SEARCH_FIELDS_FROM_SOURCE)), lines 574-577
useNewFieldsApi(p) == ~p.searchFieldsFromSource

\* Dependency arrays of the two effects, lines 594-601 and 613-620
\* (the state setters never change)
SelectedFieldsEffectDeps ==
    {"dataView", "workspaceSelectedFieldNames", "allFields", "searchMode",
     "onSelectedFieldFilter"}
\* Mutant: the second effect does not depend on selectedFieldsState.selectedFieldsMap
MultiFieldsEffectDepsWithoutSelection ==
    {"disableMultiFieldsGroupingByParent", "allFields", "useNewFieldsApi", "searchMode"}

MultiFieldsEffectDeps ==
    {"disableMultiFieldsGroupingByParent", "selectedFieldsMap", "allFields",
     "useNewFieldsApi", "searchMode"}

\* Mutant: the creation option is not consulted
skipMultiFieldsIgnoringOption(searchMode, newFieldsApi, disableMultiFieldsGroupingByParent) ==
    \/ searchMode # "documents"
    \/ ~newFieldsApi

\* The condition of line 604-608 under which the multi-field map is not calculated
skipMultiFields(searchMode, newFieldsApi, disableMultiFieldsGroupingByParent) ==
    \/ searchMode # "documents"
    \/ ~newFieldsApi
    \/ disableMultiFieldsGroupingByParent

\* Mutant: the branches of the conditional of line 589 are swapped
selectedFieldsEffectResultSwapped(p) ==
    getSelectedFields(p.dataView,
                      IF p.onSelectedFieldFilter THEN p.workspaceSelectedFieldNames
                      ELSE Some(<<>>),
                      p.allFields, p.searchMode)

\* Mutant: the workspace selection is passed on whether or not a filter is supplied
selectedFieldsEffectResultIgnoringFilter(p) ==
    getSelectedFields(p.dataView, p.workspaceSelectedFieldNames, p.allFields, p.searchMode)

\* The value the first effect passes to setSelectedFieldsState, lines 587-593
selectedFieldsEffectResult(p) ==
    getSelectedFields(p.dataView,
                      IF p.onSelectedFieldFilter THEN Some(<<>>)
                      ELSE p.workspaceSelectedFieldNames,
                      p.allFields, p.searchMode)

\* Mutant: the dictionary of the selection is not passed on
multiFieldsEffectResultWithoutSelection(p, selectedFields) ==
    IF skipMultiFields(p.searchMode, useNewFieldsApi(p),
                       p.disableMultiFieldsGroupingByParent)
    THEN Undefined
    ELSE calculateMultiFields(p.allFields, Undefined)

\* The value the second effect passes to setMultiFieldsMap, lines 604-612
multiFieldsEffectResult(p, selectedFields) ==
    IF skipMultiFields(p.searchMode, useNewFieldsApi(p),
                       p.disableMultiFieldsGroupingByParent)
    THEN Undefined
    ELSE calculateMultiFields(p.allFields, Some(selectedFields.selectedFieldsMap))

\* The sortedSelectedFields argument of useGroupedFields, line 650
sortedSelectedFields(p, state) ==
    IF p.onSelectedFieldFilter THEN Undefined ELSE Some(state.selectedFields)

NothingQueued ==
    [selected |-> FALSE, selectedValue |-> INITIAL_SELECTED_FIELDS_RESULT,
     multi |-> FALSE, multiValue |-> Undefined]

\* Object.is on two selected-fields results: the shared constant is one object,
\* every result a call creates is a new one
sameResultObject(old, new) == old.ref = "INITIAL" /\ new.ref = "INITIAL"

\* Object.is on two multi-field maps: every Map is a new object
sameMapObject(old, new) == ~old.defined /\ ~new.defined

\* The component function runs: its closures capture the props and state of
\* this render, and React schedules the effects whose dependencies changed
Render ==
    /\ pc = "render"
    /\ snap' = [props |-> props, selectedFieldsState |-> selectedFieldsState]
    /\ runEffects' =
         (IF changed \cap SelectedFieldsEffectDeps # {} THEN {"selectedFields"} ELSE {})
         \cup (IF changed \cap MultiFieldsEffectDeps # {} THEN {"multiFields"} ELSE {})
    /\ changed' = {}
    /\ pc' = "selectedFieldsEffect"
    /\ UNCHANGED <<props, selectedFieldsState, multiFieldsMap, queued>>
    /\ UNCHANGED pureVars

\* The effect of lines 586-601
SelectedFieldsEffect ==
    /\ pc = "selectedFieldsEffect"
    /\ queued' = IF "selectedFields" \in runEffects
                 THEN [queued EXCEPT !.selected = TRUE,
                                     !.selectedValue = selectedFieldsEffectResult(snap.props)]
                 ELSE queued
    /\ pc' = "multiFieldsEffect"
    /\ UNCHANGED <<props, selectedFieldsState, multiFieldsMap, snap, changed, runEffects>>
    /\ UNCHANGED pureVars

\* The effect of lines 603-620: it reads the selectedFieldsState of its render
MultiFieldsEffect ==
    /\ pc = "multiFieldsEffect"
    /\ queued' = IF "multiFields" \in runEffects
                 THEN [queued EXCEPT !.multi = TRUE,
                                     !.multiValue =
                                         multiFieldsEffectResult(snap.props,
                                                                 snap.selectedFieldsState)]
                 ELSE queued
    /\ pc' = "commit"
    /\ UNCHANGED <<props, selectedFieldsState, multiFieldsMap, snap, changed, runEffects>>
    /\ UNCHANGED pureVars

\* Mutant: the new dictionary is merged into the one held instead of replacing it
CommitStateMerging ==
    /\ pc = "commit"
    /\ LET newSelected ==
               IF queued.selected
               THEN [queued.selectedValue EXCEPT
                       !.selectedFieldsMap = @ @@ selectedFieldsState.selectedFieldsMap]
               ELSE selectedFieldsState
           newMulti == IF queued.multi THEN queued.multiValue ELSE multiFieldsMap
           selectedChanged ==
               queued.selected /\ ~sameResultObject(selectedFieldsState, newSelected)
           multiChanged == queued.multi /\ ~sameMapObject(multiFieldsMap, newMulti)
           nowChanged == changed \cup
                         (IF selectedChanged THEN {"selectedFieldsMap"} ELSE {})
       IN /\ selectedFieldsState' = newSelected
          /\ multiFieldsMap' = newMulti
          /\ changed' = nowChanged
          /\ pc' = IF nowChanged # {} \/ multiChanged THEN "render" ELSE "idle"
    /\ queued' = NothingQueued
    /\ runEffects' = {}
    /\ UNCHANGED <<props, snap>>
    /\ UNCHANGED pureVars

\* React applies the queued state updates; a state that is a new object asks for
\* another render
CommitState ==
    /\ pc = "commit"
    /\ LET newSelected == IF queued.selected THEN queued.selectedValue
                          ELSE selectedFieldsState
           newMulti == IF queued.multi THEN queued.multiValue ELSE multiFieldsMap
           selectedChanged ==
               queued.selected /\ ~sameResultObject(selectedFieldsState, newSelected)
           multiChanged == queued.multi /\ ~sameMapObject(multiFieldsMap, newMulti)
           nowChanged == changed \cup
                         (IF selectedChanged THEN {"selectedFieldsMap"} ELSE {})
       IN /\ selectedFieldsState' = newSelected
          /\ multiFieldsMap' = newMulti
          /\ changed' = nowChanged
          /\ pc' = IF nowChanged # {} \/ multiChanged THEN "render" ELSE "idle"
    /\ queued' = NothingQueued
    /\ runEffects' = {}
    /\ UNCHANGED <<props, snap>>
    /\ UNCHANGED pureVars

\* The parent renders the settled sidebar with one prop changed.  (React flushes
\* the effects of a render before the next render starts, so a prop never
\* changes between a render and its effects.)
changeProp(name, dep, value) ==
    /\ pc = "idle"
    /\ props' = [props EXCEPT ![name] = value]
    /\ changed' = changed \cup {dep}
    /\ pc' = "render"
    /\ UNCHANGED <<selectedFieldsState, multiFieldsMap, snap, runEffects, queued>>
    /\ UNCHANGED pureVars

ChangeAllFields ==
    \E v \in SidebarAllFields : changeProp("allFields", "allFields", v)

ChangeSelection ==
    \E v \in SidebarSelections :
        changeProp("workspaceSelectedFieldNames", "workspaceSelectedFieldNames", v)

ChangeSearchMode ==
    \E v \in SearchModes \ {props.searchMode} : changeProp("searchMode", "searchMode", v)

ChangeDataView ==
    \E v \in SidebarDataViews : changeProp("dataView", "dataView", v)

ChangeOnSelectedFieldFilter ==
    changeProp("onSelectedFieldFilter", "onSelectedFieldFilter",
               ~props.onSelectedFieldFilter)

ChangeCreationOptions ==
    changeProp("disableMultiFieldsGroupingByParent", "disableMultiFieldsGroupingByParent",
               ~props.disableMultiFieldsGroupingByParent)

-----------------------------------------------------------------------------
(* The same two functions on a heap of mutable objects.  A reference is the    *)
(* index of an object in heap; NoRef is null / undefined.  Objects are never   *)
(* freed, so an object created by a call has a reference above the length of   *)
(* the heap the call started from.                                             *)

NoRef == 0

HField(name, parent) == [kind |-> "field", name |-> name, parent |-> parent]
HArray(items) == [kind |-> "array", items |-> items]
HDict(entries) == [kind |-> "dict", entries |-> entries]
HMap(entries) == [kind |-> "map", entries |-> entries]
HPair(field, isSelected) == [kind |-> "pair", field |-> field, isSelected |-> isSelected]
HResult(selectedFields, selectedFieldsMap) ==
    [kind |-> "result", selectedFields |-> selectedFields,
     selectedFieldsMap |-> selectedFieldsMap]

\* INITIAL_SELECTED_FIELDS_RESULT: one object, created when the module loads
InitialHeap == <<HArray(<<>>), HDict(<<>>), HResult(1, 2)>>
InitialResultRef == 3

\* The reference map.get(key) returns for a Map object
hMapGet(mapObject, key) ==
    IF \E i \in 1..Len(mapObject.entries) : mapObject.entries[i].key = key
    THEN mapObject.entries[CHOOSE i \in 1..Len(mapObject.entries) :
                              mapObject.entries[i].key = key].value
    ELSE NoRef

\* Boolean(selectedFieldsMap?.[field.name]) (line 795)
hIsSelected(h, dict, name) ==
    /\ dict # NoRef
    /\ name \in DOMAIN h[dict].entries
    /\ h[dict].entries[name]

\* The forEach callback (lines 787-800): st is the heap and the Map being built.
\* The pair is created (line 793), then the bucket when the Map has none (line
\* 797), the pair is pushed (line 798) and the bucket is set (line 799).
hMultiFieldsStep(st, field, dict) ==
    LET parent == getDataViewFieldSubtypeMulti(st.heap[field])
        multiField == Len(st.heap) + 1
        h1 == Append(st.heap, HPair(field, hIsSelected(st.heap, dict, st.heap[field].name)))
        found == hMapGet(h1[st.map], parent)
        value == IF found # NoRef THEN found ELSE Len(h1) + 1
        h2 == IF found # NoRef THEN h1 ELSE Append(h1, HArray(<<>>))
        h3 == [h2 EXCEPT ![value].items = Append(@, multiField)]
        h4 == IF found # NoRef THEN h3
              ELSE [h3 EXCEPT ![st.map].entries =
                                  Append(@, [key |-> parent, value |-> value])]
    IN IF ~TruthyString(parent) THEN st ELSE [st EXCEPT !.heap = h4]

RECURSIVE hMultiFieldsForEach(_, _, _, _)
hMultiFieldsForEach(st, fields, i, dict) ==
    IF i > Len(fields) THEN st
    ELSE hMultiFieldsForEach(hMultiFieldsStep(st, fields[i], dict), fields, i + 1, dict)

\* Mutant: the list is consumed while it is traversed (allFields.shift() in a
\* loop), so the caller's array ends up empty
hCalculateMultiFieldsDraining(h, allFields, dict) ==
    IF allFields = NoRef THEN [heap |-> h, result |-> NoRef]
    ELSE LET st == hMultiFieldsForEach([heap |-> Append(h, HMap(<<>>)),
                                        map |-> Len(h) + 1],
                                       h[allFields].items, 1, dict)
         IN [heap |-> [st.heap EXCEPT ![allFields].items = <<>>], result |-> st.map]

\* calculateMultiFields (lines 779-802): the heap after the call and the
\* reference it returns
hCalculateMultiFields(h, allFields, dict) ==
    IF allFields = NoRef THEN [heap |-> h, result |-> NoRef]
    ELSE LET st == hMultiFieldsForEach([heap |-> Append(h, HMap(<<>>)),
                                        map |-> Len(h) + 1],
                                       h[allFields].items, 1, dict)
         IN [heap |-> st.heap, result |-> st.map]

\* The reference of the field of a list with a name, or NoRef
hFindByName(h, fields, name) ==
    IF \E i \in 1..Len(fields) : h[fields[i]].name = name
    THEN fields[CHOOSE i \in 1..Len(fields) :
                   /\ h[fields[i]].name = name
                   /\ \A j \in 1..(i - 1) : h[fields[j]].name # name]
    ELSE NoRef

\* The loop of getSelectedFields: st is the heap and the result being built
RECURSIVE hSelectedFieldsLoop(_, _, _, _)
hSelectedFieldsLoop(st, fields, names, i) ==
    IF i > Len(names) THEN st
    ELSE LET selectedField == hFindByName(st.heap, fields, names[i])
             result == st.heap[st.result]
             next ==
                 IF selectedField = NoRef THEN st
                 ELSE [st EXCEPT
                         !.heap[result.selectedFields].items = Append(@, selectedField),
                         !.heap[result.selectedFieldsMap].entries = (names[i] :> TRUE) @@ @]
         IN hSelectedFieldsLoop(next, fields, names, i + 1)

\* getSelectedFields without a data view: the shared initial result for an empty
\* selection, else a new result object with a new sequence and a new dictionary
hGetSelectedFields(h, names, allFields) ==
    IF names = NoRef \/ Len(h[names].items) = 0
    THEN [heap |-> h, result |-> InitialResultRef]
    ELSE LET h1 == h \o <<HArray(<<>>), HDict(<<>>), HResult(Len(h) + 1, Len(h) + 2)>>
         IN hSelectedFieldsLoop([heap |-> h1, result |-> Len(h) + 3],
                                IF allFields = NoRef THEN <<>> ELSE h[allFields].items,
                                h[names].items, 1)

HeapFieldLists ==
    {Null} \cup {Some(l) : l \in FieldLists({"a", "b", "c"}, {"a"}, MaxHeapFields)}
HeapSelectedMaps == {Undefined} \cup {Some(m) : m \in BoolMaps({"b", "c"})}
HeapSelections ==
    {Undefined, Some(<<>>), Some(<<"b">>), Some(<<StaleName, "c", "b">>)}

\* The heap holding the inputs: the field objects, the allFields array, the
\* selectedFieldsMap dictionary and the array of selected names
InputHeap(allFields, selectedFieldsMap, names) ==
    LET fields == IF allFields.defined THEN allFields.value ELSE <<>>
        h1 == InitialHeap \o
              [i \in 1..Len(fields) |-> HField(fields[i].name, fields[i].parent)]
        h2 == IF allFields.defined
              THEN Append(h1, HArray([i \in 1..Len(fields) |-> Len(InitialHeap) + i]))
              ELSE h1
        h3 == IF selectedFieldsMap.defined
              THEN Append(h2, HDict(selectedFieldsMap.value)) ELSE h2
        h4 == IF names.defined THEN Append(h3, HArray(names.value)) ELSE h3
    IN [heap |-> h4,
        allFields |-> IF allFields.defined THEN Len(h2) ELSE NoRef,
        selectedFieldsMap |-> IF selectedFieldsMap.defined THEN Len(h3) ELSE NoRef,
        names |-> IF names.defined THEN Len(h4) ELSE NoRef]

NoHeapInputs == [allFields |-> NoRef, selectedFieldsMap |-> NoRef, names |-> NoRef]

InitNoHeap ==
    /\ heap = InitialHeap
    /\ hin = NoHeapInputs
    /\ hcalls = <<>>

InitHeap ==
    \E allFields \in HeapFieldLists, selectedFieldsMap \in HeapSelectedMaps,
       names \in HeapSelections :
        LET in == InputHeap(allFields, selectedFieldsMap, names)
        IN /\ heap = in.heap
           /\ hin = [allFields |-> in.allFields,
                     selectedFieldsMap |-> in.selectedFieldsMap, names |-> in.names]
           /\ hcalls = <<>>

\* The dictionaries a caller can pass to calculateMultiFields: none, the input
\* dictionary, or the selectedFieldsMap of a result the resolver returned
HeapDictionaries ==
    {NoRef, hin.selectedFieldsMap} \cup
    {heap[hcalls[k].result].selectedFieldsMap :
        k \in {j \in 1..Len(hcalls) : hcalls[j].fn = "getSelectedFields"}}

HeapCallCalculateMultiFields ==
    /\ Len(hcalls) < MaxCalls
    /\ \E dict \in HeapDictionaries :
          LET done == hCalculateMultiFields(heap, hin.allFields, dict)
          IN /\ heap' = done.heap
             /\ hcalls' = Append(hcalls, [fn |-> "calculateMultiFields",
                                          before |-> heap, result |-> done.result])
    /\ UNCHANGED <<hin, op, args, ret>>
    /\ UNCHANGED sidebarVars

HeapCallGetSelectedFields ==
    /\ Len(hcalls) < MaxCalls
    /\ LET done == hGetSelectedFields(heap, hin.names, hin.allFields)
       IN /\ heap' = done.heap
          /\ hcalls' = Append(hcalls, [fn |-> "getSelectedFields",
                                       before |-> heap, result |-> done.result])
    /\ UNCHANGED <<hin, op, args, ret>>
    /\ UNCHANGED sidebarVars

-----------------------------------------------------------------------------
(* retrieveFieldsFromFilter, lines 64-76 *)

\* meta.key of a filter; "" stands for an absent or empty key (both falsy)
FilterKeys == {"", "a", "b"}
PriorKeys == {"p"}

PhraseFilter(key) == [meta |-> [type |-> "phrase", key |-> key, params |-> <<>>]]
CombinedFilter(key, params) ==
    [meta |-> [type |-> "combined", key |-> key, params |-> params]]

isCombinedFilter(filter) == filter.meta.type = "combined"

\* Every list of filters holding at most n filters, the nested ones counted
RECURSIVE FilterLists(_), FiltersUpTo(_)
FilterLists(n) ==
    IF n = 0 THEN {<<>>}
    ELSE {<<>>} \cup
         UNION {{<<f>> \o rest : f \in FiltersUpTo(k), rest \in FilterLists(n - k)} :
                k \in 1..n}

FiltersUpTo(n) ==
    {PhraseFilter(key) : key \in FilterKeys} \cup
    {CombinedFilter(key, params) : key \in FilterKeys, params \in FilterLists(n - 1)}

RECURSIVE retrieveFieldsFromFilter(_, _, _), retrieveFieldsForOf(_, _, _, _)
RECURSIVE retrieveFieldsForOfPreOrder(_, _, _, _)

\* The loop pushing a filter's own key before the keys nested in it
retrieveFieldsForOfPreOrder(h, filters, i, fields) ==
    IF i > Len(filters) THEN h
    ELSE LET filter == filters[i]
             pushed == IF TruthyString(filter.meta.key)
                       THEN [h EXCEPT ![fields].items = Append(@, filter.meta.key)]
                       ELSE h
             nested == IF isCombinedFilter(filter)
                       THEN retrieveFieldsFromFilter(pushed, filter.meta.params, fields).heap
                       ELSE pushed
         IN retrieveFieldsForOfPreOrder(nested, filters, i + 1, fields)

\* for (const filter of filters), lines 65-73, from the i-th filter on; fields is
\* the reference of the array pushed to, the value is the heap after the loop
retrieveFieldsForOf(h, filters, i, fields) ==
    IF i > Len(filters) THEN h
    ELSE LET filter == filters[i]
             nested == IF isCombinedFilter(filter)
                       THEN retrieveFieldsFromFilter(h, filter.meta.params, fields).heap
                       ELSE h
             pushed == IF TruthyString(filter.meta.key)
                       THEN [nested EXCEPT ![fields].items = Append(@, filter.meta.key)]
                       ELSE nested
         IN retrieveFieldsForOf(pushed, filters, i + 1, fields)

\* fields = NoRef is a call without the second argument: the default [] of line 64
\* is evaluated, which creates an array
retrieveFieldsFromFilter(h, filters, fields) ==
    LET omitted == fields = NoRef
        h0 == IF omitted THEN Append(h, HArray(<<>>)) ELSE h
        array == IF omitted THEN Len(h0) ELSE fields
    IN [heap |-> retrieveFieldsForOf(h0, filters, 1, array), result |-> array]

\* The caller holds a list of filters and an array of names collected so far
InitFilters ==
    \E filters \in FilterLists(MaxFilters), prior \in SeqsUpTo(PriorKeys, MaxPrior) :
        /\ heap = Append(InitialHeap, HArray(prior))
        /\ hin = [filters |-> filters, fields |-> Len(InitialHeap) + 1]
        /\ hcalls = <<>>

\* The arrays a caller can pass as fields: none, its own, or one returned earlier
FieldsArguments == {NoRef, hin.fields} \cup {hcalls[k].result : k \in 1..Len(hcalls)}

CallRetrieveFieldsFromFilter ==
    /\ Len(hcalls) < MaxCalls
    /\ \E fields \in FieldsArguments :
          LET r == retrieveFieldsFromFilter(heap, hin.filters, fields)
          IN /\ heap' = r.heap
             /\ hcalls' = Append(hcalls, [fn |-> "retrieveFieldsFromFilter",
                                          fields |-> fields, before |-> heap,
                                          after |-> r.heap, result |-> r.result])
    /\ UNCHANGED <<hin, op, args, ret>>
    /\ UNCHANGED sidebarVars

-----------------------------------------------------------------------------
(* Specifications *)

InitCall ==
    /\ op = "none"
    /\ args = NoArgs
    /\ ret = Return(<<>>)

InitPure == InitCall /\ InitNoHeap

\* The component is mounted: the state holds the initial values of lines 579-584
\* and the first render runs both effects
InitSidebar ==
    /\ props \in SidebarProps
    /\ selectedFieldsState = INITIAL_SELECTED_FIELDS_RESULT
    /\ multiFieldsMap = Undefined
    /\ pc = "render"
    /\ snap = [props |-> props, selectedFieldsState |-> INITIAL_SELECTED_FIELDS_RESULT]
    /\ changed = SelectedFieldsEffectDeps \cup MultiFieldsEffectDeps
    /\ runEffects = {}
    /\ queued = NothingQueued

\* A sidebar that is never rendered (the pure calls do not need one)
InitNoSidebar ==
    /\ props = CHOOSE p \in SidebarProps : TRUE
    /\ selectedFieldsState = INITIAL_SELECTED_FIELDS_RESULT
    /\ multiFieldsMap = Undefined
    /\ pc = "unmounted"
    /\ snap = [props |-> props, selectedFieldsState |-> INITIAL_SELECTED_FIELDS_RESULT]
    /\ changed = {}
    /\ runEffects = {}
    /\ queued = NothingQueued

Init == InitPure /\ InitSidebar

Next ==
    \/ Render
    \/ SelectedFieldsEffect
    \/ MultiFieldsEffect
    \/ CommitState
    \/ ChangeAllFields
    \/ ChangeSelection
    \/ ChangeSearchMode
    \/ ChangeDataView
    \/ ChangeOnSelectedFieldFilter
    \/ ChangeCreationOptions

\* The sidebar
Spec == Init /\ [][Next]_vars

\* React runs a scheduled render, flushes its effects and applies the queued
\* state updates without waiting for anything; the parent need not change a prop
RenderCycle ==
    \/ Render
    \/ SelectedFieldsEffect
    \/ MultiFieldsEffect
    \/ CommitState

\* The sidebar, with every scheduled render carried out
SpecFair == Spec /\ WF_vars(RenderCycle)

InitCalls == InitPure /\ InitNoSidebar

NextCalls ==
    \/ CallCalculateMultiFields
    \/ CallBuildExistsHostsFilter
    \/ CallBuildCombinedHostsFilter
    \/ CallGetSelectedFields

\* The pure functions, each called on every input within the bounds
SpecCalls == InitCalls /\ [][NextCalls]_vars

InitHeapCalls == InitCall /\ InitHeap /\ InitNoSidebar

NextHeapCalls ==
    \/ HeapCallCalculateMultiFields
    \/ HeapCallGetSelectedFields

\* The two functions called in a row on one heap of objects
SpecHeap == InitHeapCalls /\ [][NextHeapCalls]_vars

InitFilterCalls == InitCall /\ InitFilters /\ InitNoSidebar

NextFilterCalls == CallRetrieveFieldsFromFilter

\* retrieveFieldsFromFilter called in a row on one list of filters
SpecFilters == InitFilterCalls /\ [][NextFilterCalls]_vars

-----------------------------------------------------------------------------
(* Claims about the pure functions, checked under SpecCalls *)

Called(name) == op = name /\ ret.status = "returned"

\* The bucket a Map holds for a key (empty when it holds none)
BucketOf(map, key) ==
    IF MapHas(map, key) THEN MapGet(map, key).value ELSE <<>>

HasTruthyEntry(dict, name) ==
    dict.defined /\ \E n \in DOMAIN dict.value : n = name /\ dict.value[n] = TRUE

\* The fields of a list that declare parent P, in list order, each with its flag
ExpectedBucket(fields, P, dict) ==
    LET sub == SelectSeq(fields, LAMBDA f : f.parent = P)
    IN [i \in 1..Len(sub) |->
          [field |-> sub[i], isSelected |-> HasTruthyEntry(dict, sub[i].name)]]

\* C1: for every allFields list and every parent name P, the bucket that
\* calculateMultiFields builds for P is exactly the subsequence of allFields whose
\* declared parent is P, in allFields order, each field paired with isSelected =
\* TRUE iff selectedFieldsMap has a truthy entry for its name (FALSE when the name
\* is absent or the map is undefined); a field without a parent is in no bucket.
C1_BucketsAreParentSubsequences ==
    (op = "calculateMultiFields" /\ args.allFields.defined) =>
        /\ ret.status = "returned" /\ ret.value.defined
        /\ LET map == ret.value.value
           IN /\ \A i, j \in 1..Len(map) : map[i].key = map[j].key => i = j
              /\ \A P \in FieldNames :
                    BucketOf(map, P) =
                        ExpectedBucket(args.allFields.value, P, args.selectedFieldsMap)
              /\ \A i \in 1..Len(map) : \A k \in 1..Len(map[i].value) :
                    map[i].value[k].field.parent # NoParent

\* The example of the specification: [A, B(parent=A), C(parent=A), D] with {B: true}
C1_Witness ==
    /\ op = "calculateMultiFields"
    /\ args.allFields =
         Some(<<[name |-> "a", parent |-> NoParent], [name |-> "b", parent |-> "a"],
                [name |-> "c", parent |-> "a"], [name |-> "d", parent |-> NoParent]>>)
    /\ args.selectedFieldsMap = Some("b" :> TRUE)
    /\ ret = Return(Some(<<[key |-> "a",
                           value |-> <<[field |-> [name |-> "b", parent |-> "a"],
                                        isSelected |-> TRUE],
                                       [field |-> [name |-> "c", parent |-> "a"],
                                        isSelected |-> FALSE]>>]>>))

\* C7: calculateMultiFields called with an absent allFields returns undefined for
\* every selectedFieldsMap, without an error; with a present but empty allFields
\* it returns an empty map, not undefined.
C7_AbsentFieldsGiveUndefined ==
    op = "calculateMultiFields" =>
        /\ ret.status = "returned"
        /\ ~args.allFields.defined => ~ret.value.defined
        /\ (args.allFields.defined /\ Len(args.allFields.value) = 0) =>
               (ret.value.defined /\ Len(ret.value.value) = 0)

C7_Witness ==
    /\ op = "calculateMultiFields"
    /\ ~args.allFields.defined
    /\ args.selectedFieldsMap.defined
    /\ DOMAIN args.selectedFieldsMap.value = FieldNames
    /\ ret = Return(Undefined)

\* C10: every key of the multi-field map is the declared parent of at least one
\* field of allFields and maps to a non-empty bucket; so a field that is itself a
\* sub-field is a key only if another field of allFields declares it as its parent.
C10_KeysAreDeclaredParents ==
    (Called("calculateMultiFields") /\ ret.value.defined) =>
        LET map == ret.value.value
            fields == args.allFields.value
        IN /\ \A i \in 1..Len(map) :
                 /\ Len(map[i].value) > 0
                 /\ \E k \in 1..Len(fields) :
                       fields[k].parent # NoParent /\ fields[k].parent = map[i].key
           /\ \A k \in 1..Len(fields) :
                 (fields[k].parent # NoParent /\ MapHas(map, fields[k].name)) =>
                     \E j \in 1..Len(fields) : j # k /\ fields[j].parent = fields[k].name

\* A sub-field (b, of parent a) that is a key because c declares it as its parent
C10_Witness ==
    /\ Called("calculateMultiFields")
    /\ args.allFields =
         Some(<<[name |-> "b", parent |-> "a"], [name |-> "c", parent |-> "b"]>>)
    /\ MapKeys(ret.value.value) = {"a", "b"}

FieldMissing == args.dataView.defined /\ ~getFieldByName(args.dataView.value, args.field).defined

\* C5 as stated: with a data view that lacks the named field, both builders fail
\* for every field name and every values list, the empty list included.
C5_MissingFieldAlwaysFails ==
    (op \in {"buildExistsHostsFilter", "buildCombinedHostsFilter"} /\ FieldMissing) =>
        ret.status = "threw"

\* C5 (amended): with a data view that lacks the named field, buildExistsHostsFilter
\* fails for every field name, and buildCombinedHostsFilter fails for every
\* non-empty values list; for the empty list no phrase filter is built, the missing
\* field is never read, and the call returns a combined OR filter without params.
C5_MissingFieldFailsUnlessNoValues ==
    /\ (op = "buildExistsHostsFilter" /\ FieldMissing) => ret.status = "threw"
    /\ (op = "buildCombinedHostsFilter" /\ FieldMissing) =>
          IF Len(args.values) > 0 THEN ret.status = "threw"
          ELSE /\ ret.status = "returned"
               /\ {"relation", "params"} \subseteq DOMAIN ret.value.meta
               /\ ret.value.meta.relation = "OR"
               /\ Len(ret.value.meta.params) = 0

C5_Witness ==
    /\ op = "buildCombinedHostsFilter"
    /\ FieldMissing
    /\ Len(args.values) = MaxValues
    /\ args.dataView.value.fields # {}
    /\ ret.status = "threw"

\* C6: without a data view the builders return the raw query and look nothing
\* up: buildExistsHostsFilter returns empty meta and exists on exactly the given
\* field; buildCombinedHostsFilter returns empty meta and terms keyed by the given
\* field with exactly the given values in the given order; neither can fail.
C6_RawQueryWithoutDataView ==
    /\ (op = "buildExistsHostsFilter" /\ ~args.dataView.defined) =>
          /\ ret.status = "returned"
          /\ DOMAIN ret.value.meta = {}
          /\ DOMAIN ret.value.query = {"exists"}
          /\ ret.value.query.exists.field = args.field
    /\ (op = "buildCombinedHostsFilter" /\ ~args.dataView.defined) =>
          /\ ret.status = "returned"
          /\ DOMAIN ret.value.meta = {}
          /\ DOMAIN ret.value.query = {"terms"}
          /\ DOMAIN ret.value.query.terms = {args.field}
          /\ ret.value.query.terms[args.field] = args.values

C6_Witness ==
    /\ op = "buildExistsHostsFilter"
    /\ ~args.dataView.defined
    /\ args.field = StaleName
    /\ ret.status = "returned"
    /\ ret.value.query.exists.field = StaleName

\* C8: when the selection is empty or undefined, the resolver returns the defined
\* initial result (empty sequence, empty dictionary) and raises no error, for every
\* allFields list, data view and search mode.
C8_EmptySelectionGivesInitial ==
    (/\ op = "getSelectedFields"
     /\ \/ ~args.workspaceSelectedFieldNames.defined
        \/ Len(args.workspaceSelectedFieldNames.value) = 0) =>
        /\ ret.status = "returned"
        /\ ret.value = INITIAL_SELECTED_FIELDS_RESULT
        /\ Len(ret.value.selectedFields) = 0
        /\ DOMAIN ret.value.selectedFieldsMap = {}

C8_Witness ==
    /\ op = "getSelectedFields"
    /\ args.workspaceSelectedFieldNames = Some(<<>>)
    /\ args.allFields.defined /\ Len(args.allFields.value) = MaxSidebarFields
    /\ args.dataView.defined
    /\ args.searchMode = "text-based"
    /\ ret = Return(INITIAL_SELECTED_FIELDS_RESULT)

-----------------------------------------------------------------------------
(* Claims about the sidebar, checked under Spec *)

\* No render, effect or state update is pending
Settled == pc = "idle"

\* Whether a name matches a known field: a field of allFields, or of the data
\* view's schema when allFields is absent
KnownName(p, n) ==
    IF p.allFields.defined
    THEN \E i \in 1..Len(p.allFields.value) : p.allFields.value[i].name = n
    ELSE p.dataView.defined /\ \E f \in p.dataView.value.fields : f.name = n

\* The known fields
KnownFields(p) ==
    IF p.allFields.defined
    THEN {p.allFields.value[i] : i \in 1..Len(p.allFields.value)}
    ELSE IF p.dataView.defined THEN p.dataView.value.fields ELSE {}

\* The selection the resolver is given
ResolvedSelection(p) ==
    IF p.onSelectedFieldFilter \/ ~p.workspaceSelectedFieldNames.defined THEN <<>>
    ELSE p.workspaceSelectedFieldNames.value

NamesOf(fields) == [i \in 1..Len(fields) |-> fields[i].name]

\* C2: for every selection sequence and every allFields list, the resolved
\* selectedFields sequence is exactly the selection names that match a known
\* field, in their original selection order: names without a matching field are
\* excluded and no valid name is reordered.
C2_SelectedFieldsAreKnownNamesInOrder ==
    Settled =>
        /\ NamesOf(selectedFieldsState.selectedFields) =
               SelectSeq(ResolvedSelection(props), LAMBDA n : KnownName(props, n))
        /\ \A i \in 1..Len(selectedFieldsState.selectedFields) :
               selectedFieldsState.selectedFields[i] \in KnownFields(props)

C2_Witness ==
    /\ Settled
    /\ props.workspaceSelectedFieldNames = Some(<<"b", StaleName, "a">>)
    /\ props.allFields =
         Some(<<[name |-> "a", parent |-> NoParent], [name |-> "b", parent |-> "a"]>>)
    /\ selectedFieldsState.selectedFields =
         <<[name |-> "b", parent |-> "a"], [name |-> "a", parent |-> NoParent]>>

AgreeingResult(result) ==
    DOMAIN result.selectedFieldsMap =
        {result.selectedFields[i].name : i \in 1..Len(result.selectedFields)}

\* C3: in every selected-fields result the sidebar holds (the initial one and
\* every one a recomputation produces), the keys of selectedFieldsMap are exactly
\* the names of the fields of the selectedFields sequence.
C3_MapAndSequenceAgree ==
    /\ AgreeingResult(selectedFieldsState)
    /\ AgreeingResult(snap.selectedFieldsState)
    /\ queued.selected => AgreeingResult(queued.selectedValue)

C3_Witness ==
    /\ Settled
    /\ selectedFieldsState.ref = "fresh"
    /\ Len(selectedFieldsState.selectedFields) = 2
    /\ DOMAIN selectedFieldsState.selectedFieldsMap = {"a", "b"}
    /\ StaleName \in {props.workspaceSelectedFieldNames.value[i] :
                        i \in 1..Len(props.workspaceSelectedFieldNames.value)}

MultiFieldsDisabled(p) ==
    p.searchMode # "documents" \/ p.disableMultiFieldsGroupingByParent

\* C4: the multi-field map is never computed (the sidebar's multiFieldsMap is set
\* to undefined) whenever the search mode is not "documents" or the creation
\* option disableMultiFieldsGroupingByParent is set, whatever allFields and the
\* selection are.
C4_MultiFieldsSkipped ==
    /\ (queued.multi /\ MultiFieldsDisabled(snap.props)) => ~queued.multiValue.defined
    /\ (Settled /\ MultiFieldsDisabled(props)) => ~multiFieldsMap.defined

\* Grouping is switched off by the creation option alone, after a map was shown
C4_Witness ==
    /\ pc = "commit"
    /\ queued.multi /\ ~queued.multiValue.defined
    /\ multiFieldsMap.defined /\ Len(multiFieldsMap.value) > 0
    /\ snap.props.disableMultiFieldsGroupingByParent
    /\ snap.props.searchMode = "documents"
    /\ ~snap.props.searchFieldsFromSource

-----------------------------------------------------------------------------
(* Further claims about the settled sidebar, checked under Spec *)

\* The four conditions under which the map is calculated
MultiFieldsCalculated(p) ==
    /\ p.searchMode = "documents"
    /\ ~p.searchFieldsFromSource
    /\ ~p.disableMultiFieldsGroupingByParent
    /\ p.allFields.defined

\* C15: after a recomputation the sidebar's multiFieldsMap is defined if and only
\* if searchMode is "documents", the searchFieldsFromSource setting (as the
\* component read it) is off, disableMultiFieldsGroupingByParent is not set and
\* allFields is not null; the setting being on is alone enough to leave it
\* undefined.
C15_MapDefinedIffFourConditions ==
    /\ queued.multi => (queued.multiValue.defined <=> MultiFieldsCalculated(snap.props))
    /\ Settled => (multiFieldsMap.defined <=> MultiFieldsCalculated(props))

\* The setting is on and nothing else stands in the way: the effect has just
\* queued undefined for a list holding a sub-field
C15_Witness ==
    /\ pc = "commit"
    /\ queued.multi /\ ~queued.multiValue.defined
    /\ snap.props.searchFieldsFromSource
    /\ snap.props.searchMode = "documents"
    /\ ~snap.props.disableMultiFieldsGroupingByParent
    /\ snap.props.allFields.defined
    /\ \E i \in 1..Len(snap.props.allFields.value) :
          TruthyString(snap.props.allFields.value[i].parent)

\* No entry of the map is flagged as selected
NothingSelected(map) ==
    \A i \in 1..Len(map) : \A k \in 1..Len(map[i].value) : ~map[i].value[k].isSelected

\* C16: whenever onSelectedFieldFilter is supplied, the resolver is called with an
\* empty selection and returns the initial result, so the settled
\* selectedFieldsState is the initial empty result whatever
\* workspaceSelectedFieldNames holds, no sorted selected-field list is passed to
\* the grouping hook, and every entry of the settled multi-field map has
\* isSelected = false.
C16_FilterOverridesSelection ==
    /\ (queued.selected /\ snap.props.onSelectedFieldFilter) =>
           queued.selectedValue = INITIAL_SELECTED_FIELDS_RESULT
    /\ snap.props.onSelectedFieldFilter =>
           ~sortedSelectedFields(snap.props, snap.selectedFieldsState).defined
    /\ (Settled /\ props.onSelectedFieldFilter) =>
           /\ selectedFieldsState = INITIAL_SELECTED_FIELDS_RESULT
           /\ ~sortedSelectedFields(props, selectedFieldsState).defined
           /\ multiFieldsMap.defined => NothingSelected(multiFieldsMap.value)

\* Settled with a filter supplied while the workspace selection names a sub-field
\* that the map holds
C16_Witness ==
    /\ Settled
    /\ props.onSelectedFieldFilter
    /\ props.workspaceSelectedFieldNames.defined
    /\ multiFieldsMap.defined
    /\ \E i \in 1..Len(multiFieldsMap.value) :
          \E k \in 1..Len(multiFieldsMap.value[i].value) :
             \E n \in 1..Len(props.workspaceSelectedFieldNames.value) :
                props.workspaceSelectedFieldNames.value[n] =
                    multiFieldsMap.value[i].value[k].field.name

-----------------------------------------------------------------------------
(* Claims about the sidebar's effects settling, checked under SpecFair *)

\* Every entry's flag is the truthiness of its field's name in the dictionary
FlagsFollow(map, dict) ==
    \A i \in 1..Len(map) :
        \A k \in 1..Len(map[i].value) :
            map[i].value[k].isSelected =
                HasTruthyEntry(Some(dict), map[i].value[k].field.name)

\* The map held was computed from another selection than the one held
StaleMap ==
    /\ multiFieldsMap.defined
    /\ ~FlagsFollow(multiFieldsMap.value, selectedFieldsState.selectedFieldsMap)

\* C14: once the two effects have settled and the multi-field map is defined,
\* every entry's isSelected flag equals the truthiness of its field's name in the
\* current selectedFieldsState.selectedFieldsMap; a map computed from the
\* selection of the previous render is always followed by a settled state, so it
\* is superseded and never the final state.
C14_StaleMapIsSuperseded ==
    /\ [](Settled => ~StaleMap)
    /\ StaleMap ~> Settled

\* The new selection is committed while the map of the previous render is held;
\* another render is scheduled
C14_Witness ==
    /\ StaleMap
    /\ pc = "render"
    /\ "selectedFieldsMap" \in changed
    /\ selectedFieldsState.ref = "fresh"

-----------------------------------------------------------------------------
(* Claims about objects and references, checked under SpecHeap *)

\* The references a calculateMultiFields result is made of: the Map, its buckets
\* and the pairs in them
MapObjects(h, map) ==
    {map} \cup {h[map].entries[i].value : i \in 1..Len(h[map].entries)}
    \cup UNION {{h[h[map].entries[i].value].items[k] :
                    k \in 1..Len(h[h[map].entries[i].value].items)} :
                i \in 1..Len(h[map].entries)}

-----------------------------------------------------------------------------
(* Claims about retrieveFieldsFromFilter, checked under SpecFilters *)

\* The keys of a list of filters in post-order, defined by concatenation: the
\* keys of the first filter (those nested in it, then its own), then the rest
RECURSIVE PostOrderKeys(_)
PostOrderKeys(filters) ==
    IF filters = <<>> THEN <<>>
    ELSE LET filter == Head(filters)
         IN (IF filter.meta.type = "combined"
             THEN PostOrderKeys(filter.meta.params) ELSE <<>>)
            \o (IF filter.meta.key # "" THEN <<filter.meta.key>> ELSE <<>>)
            \o PostOrderKeys(Tail(filters))

\* C13: retrieveFieldsFromFilter returns the very array passed as fields, or an
\* array created by the call when none is passed; the array holds what it held
\* before, followed by the non-empty keys of the filters in post-order (a combined
\* filter's nested keys before its own); no empty key is pushed and no other
\* object is written.
C13_KeysAppendedInPostOrder ==
    \A k \in 1..Len(hcalls) :
        LET c == hcalls[k]
            prior == IF c.fields = NoRef THEN <<>> ELSE c.before[c.fields].items
            items == c.after[c.result].items
        IN /\ IF c.fields = NoRef THEN c.result > Len(c.before) ELSE c.result = c.fields
           /\ items = prior \o PostOrderKeys(hin.filters)
           /\ \A i \in (Len(prior) + 1)..Len(items) : items[i] # ""
           /\ \A id \in 1..Len(c.before) : id # c.fields => c.after[id] = c.before[id]

\* A call on the caller's non-empty array, then one without an array, on filters
\* holding a keyed combined filter around a filter with another key, and a filter
\* without a key
C13_Witness ==
    /\ Len(hcalls) = 2
    /\ hcalls[1].fields = hin.fields
    /\ hcalls[1].before[hin.fields].items # <<>>
    /\ hcalls[2].fields = NoRef
    /\ hcalls[2].result # hcalls[1].result
    /\ \E i \in 1..Len(hin.filters) :
          LET filter == hin.filters[i]
          IN /\ isCombinedFilter(filter)
             /\ filter.meta.key = "a"
             /\ Len(filter.meta.params) = 1
             /\ filter.meta.params[1].meta.key = "b"
    /\ \E i \in 1..Len(hin.filters) : hin.filters[i].meta.key = ""

=============================================================================
